---------------------------- MODULE Spec2Model ----------------------------
(***************************************************************************)
(* State-machine model of the chat server in                               *)
(* src/chat_server_server/chat_server_server.cpp: the ChatServer room      *)
(* registry, ChatRoom membership and broadcast, the ChatSession read       *)
(* handlers, and the textual command parser ChatServer::check_message.     *)
(*                                                                         *)
(* The server is a single-threaded boost::asio reactor: every completion   *)
(* handler runs to its end before the next one starts, so each handler is  *)
(* one atomic action.  Strings are TLA+ strings, indexed from 0 by the     *)
(* helpers below exactly as std::string is.                                *)
(***************************************************************************)
EXTENDS Integers, Sequences, FiniteSets, TLC

(***************************************************************************)
(* Bounds of the model.                                                    *)
(***************************************************************************)
NumSessions == 2
MaxMsgs == 2
MaxBuf == 1
MaxLeaveCalls == 1
MaxCmds == 2

Sessions == 1..NumSessions

\* nullptr
NULL == 0

NL == "\n"

JOIN_NOTICE == "A new user has joined the chat."

LEAVE_NOTICE == "A user has left the chat."

\* std::string::npos
npos == -1

\* the largest int: std::stoi reports out_of_range beyond it
INT_MAX == 2147483647

(***************************************************************************)
(* std::string helpers (positions count from 0).                           *)
(***************************************************************************)
CharAt(str, i) == SubSeq(str, i + 1, i + 1)

\* str.substr(pos, n)
substr(str, pos, n) == SubSeq(str, pos + 1, pos + n)

\* str.substr(pos)
substr_from(str, pos) == SubSeq(str, pos + 1, Len(str))

\* str.find(ch, start): the first position >= start holding ch, or npos
find(str, ch, start) ==
    LET hits == {i \in start..(Len(str) - 1) : CharAt(str, i) = ch}
    IN  IF hits = {} THEN npos ELSE CHOOSE i \in hits : \A j \in hits : i <= j

Digits == {"0", "1", "2", "3", "4", "5", "6", "7", "8", "9"}

DigitVal(c) ==
    CASE c = "0" -> 0 [] c = "1" -> 1 [] c = "2" -> 2 [] c = "3" -> 3
      [] c = "4" -> 4 [] c = "5" -> 5 [] c = "6" -> 6 [] c = "7" -> 7
      [] c = "8" -> 8 [] c = "9" -> 9

\* number of leading white-space characters, which std::stoi skips
RECURSIVE SkipSpace(_, _)
SkipSpace(str, i) ==
    IF i < Len(str) /\ CharAt(str, i) \in {" ", "\t", NL}
    THEN SkipSpace(str, i + 1) ELSE i

\* the digits starting at position i, accumulated into acc;
\* yields <<value, position after the last digit>>
RECURSIVE ParseDigits(_, _, _)
ParseDigits(str, i, acc) ==
    IF i < Len(str) /\ CharAt(str, i) \in Digits
    THEN ParseDigits(str, i + 1, acc * 10 + DigitVal(CharAt(str, i)))
    ELSE <<acc, i>>

\* std::stoi(str): skips white space, takes an optional sign and the longest
\* run of digits; throws invalid_argument when there is no digit and
\* out_of_range when the value does not fit an int.
stoi(str) ==
    LET s0   == SkipSpace(str, 0)
        neg  == s0 < Len(str) /\ CharAt(str, s0) = "-"
        s1   == IF s0 < Len(str) /\ CharAt(str, s0) \in {"-", "+"}
                THEN s0 + 1 ELSE s0
        pd   == ParseDigits(str, s1, 0)
        v    == IF neg THEN 0 - pd[1] ELSE pd[1]
    IN  IF pd[2] = s1
        THEN [threw |-> TRUE, what |-> "stoi", val |-> 0]
        ELSE IF v > INT_MAX \/ v < 0 - INT_MAX - 1
             THEN [threw |-> TRUE, what |-> "stoi", val |-> 0]
             ELSE [threw |-> FALSE, what |-> "", val |-> v]


(***************************************************************************)
(* Inputs.  Lines a client may send (without the terminating new-line).    *)
(* As the first line of a connection: two well-formed handshakes, one      *)
(* whose room id is not a number, one without the ',' separator.  As a     *)
(* later line: a text, and a line that looks like a handshake.             *)
(***************************************************************************)
HandshakeLines == {"1,7", "2,7", "x,7", "hi"}

ChatLines == {"hi", "1,7"}

\* Values an int member that was never assigned may hold.
Indeterminate == {0, 1}

(***************************************************************************)
(* State.                                                                  *)
(***************************************************************************)
VARIABLES
    running,      \* io_context.run() in main has not been left
    pc,           \* per session: the asynchronous operation that is pending
    room_id_,     \* ChatSession::room_id_
    user_,        \* ChatSession::user_
    buffer_,      \* ChatSession::buffer_, bytes received and not yet consumed
    rooms_,       \* ChatServer::rooms_: room id -> ChatRoom
    users_,       \* ChatServer::users_: user id -> ChatUser
    sent,         \* per session: the writes made to its socket, in order
    accepted,     \* chat lines taken by do_read, in the order taken
    talks,        \* rows of the talks table
    cout,         \* lines written to standard output
    cerr,         \* lines written to standard error
    werr,         \* the session whose socket write raised, or NULL
    leave_calls,  \* number of calls of ChatSession::leave_room so far
    handled       \* the calls of ChatServer::check_message so far, with results

vars == <<running, pc, room_id_, user_, buffer_, rooms_, users_, sent,
          accepted, talks, cout, cerr, werr, leave_calls, handled>>

(***************************************************************************)
(* ChatRoom.  A room is a record with the one data member the class has.   *)
(***************************************************************************)
ChatRoom == [members_ |-> {}]

member_count(room) == Cardinality(room.members_)

\* members_.insert(session)
insert(room, session) == [room EXCEPT !.members_ = @ \cup {session}]

\* members_.erase(session)
erase(room, session) == [room EXCEPT !.members_ = @ \ {session}]

\* a broadcast whose loop ends after the first member it visits
broadcast_first_only(room) ==
    IF room.members_ = {}
    THEN {[delivered |-> {}, failed |-> NULL]}
    ELSE {[delivered |-> {m}, failed |-> NULL] : m \in room.members_}

\* ChatRoom::broadcast writes message + "\n" to each member in the set's
\* iteration order, which is unspecified.  boost::asio::write without an
\* error_code argument throws when a write fails, which ends the loop: the
\* members visited before the failing one have been written to.  An outcome
\* names the members written to and the member whose write raised (or NULL).
broadcast(room) ==
    {[delivered |-> room.members_, failed |-> NULL]}
    \cup UNION {{[delivered |-> D, failed |-> f] :
                     D \in SUBSET (room.members_ \ {f})} : f \in room.members_}

\* a broadcast that loops over the sessions of the server, not over the
\* members of the room
written_to_sessions(streams, outcome, message) ==
    [m \in Sessions |->
        IF m \in outcome.delivered \/ pc[m] = "read"
        THEN Append(streams[m], message \o NL)
        ELSE streams[m]]

\* the socket streams after an outcome of broadcasting message
written(streams, outcome, message) ==
    [m \in Sessions |->
        IF m \in outcome.delivered
        THEN Append(streams[m], message \o NL)
        ELSE streams[m]]

(***************************************************************************)
(* ChatServer registry.                                                    *)
(***************************************************************************)
\* rooms_[room_id] = make_unique<ChatRoom>(): the id gets a new room whether
\* or not it has one
get_or_create_room_fresh(rooms, room_id) ==
    [r \in DOMAIN rooms \cup {room_id} |->
        IF r = room_id THEN ChatRoom ELSE rooms[r]]

\* the registry after get_or_create_room(room_id); the room returned is
\* the entry at room_id
get_or_create_room(rooms, room_id) ==
    IF room_id \in DOMAIN rooms
    THEN rooms
    ELSE rooms @@ (room_id :> ChatRoom)

\* an erase that does not look at member_count()
removes_any(rooms, room_id) == room_id \in DOMAIN rooms

\* TRUE when remove_empty_room(room_id) erases the entry
removes(rooms, room_id) ==
    room_id \in DOMAIN rooms /\ member_count(rooms[room_id]) = 0

remove_empty_room(rooms, room_id) ==
    IF removes(rooms, room_id)
    THEN [r \in DOMAIN rooms \ {room_id} |-> rooms[r]]
    ELSE rooms

(***************************************************************************)
(* ChatSession helpers.                                                    *)
(***************************************************************************)
\* a complete line is in the buffer: async_read_until can complete
HasLine(buf) == find(buf, NL, 0) # npos

\* a read that reports everything that has arrived as one message
ReadLength_all(buf) == Len(buf)

\* the length async_read_until reports: bytes up to and including the "\n"
ReadLength(buf) == find(buf, NL, 0) + 1

\* number of complete lines in a buffer
RECURSIVE LineCount(_)
LineCount(buf) ==
    IF HasLine(buf) THEN 1 + LineCount(substr_from(buf, ReadLength(buf))) ELSE 0

\* ChatSession::parse_initial_data: the new room_id_, whether std::stoi
\* threw, and what was written to cerr
parse_initial_data(data, old_room_id) ==
    LET comma_pos == find(data, ",", 0)
        r == stoi(substr(data, 0, comma_pos))
    IN  IF comma_pos # npos
        THEN IF r.threw
             THEN [threw |-> TRUE, room_id_ |-> old_room_id, err |-> <<>>]
             ELSE [threw |-> FALSE, room_id_ |-> r.val, err |-> <<>>]
        ELSE [threw |-> FALSE, room_id_ |-> old_room_id,
              err |-> <<"Invalid data format: " \o data>>]

\* main's catch clause: an exception that leaves a handler leaves
\* io_context.run(), is reported and the process returns
Uncaught(what) == <<"Error: " \o what>>

(***************************************************************************)
(* ChatServer::check_message: the parser and dispatcher of the command     *)
(* grammar  command?key1:value1/key2:value2.                               *)
(***************************************************************************)
\* param_map.insert({key, value}): a key that is present keeps its value
put_keep_first(map, key, value) ==
    [k \in DOMAIN map \cup {key} |-> IF k \in DOMAIN map THEN map[k] ELSE value]

\* param_map[key] = value
put(map, key, value) ==
    [k \in DOMAIN map \cup {key} |-> IF k = key THEN value ELSE map[k]]

\* param_map[key] read: operator[] yields an empty string for a missing key
at(map, key) == IF key \in DOMAIN map THEN map[key] ELSE ""

\* one "key:value" token: split on its first ':', skipped when it has none
add_pair(map, pair) ==
    LET sep == find(pair, ":", 0)
    IN  IF sep # npos
        THEN put(map, substr(pair, 0, sep), substr_from(pair, sep + 1))
        ELSE map

\* the while loop over the '/' separators; yields the final start and map
RECURSIVE parse_loop(_, _, _)
parse_loop(params, start, map) ==
    LET end == find(params, "/", start)
    IN  IF end # npos
        THEN parse_loop(params, end + 1,
                        add_pair(map, substr(params, start, end - start)))
        ELSE [start |-> start, map |-> map]

\* the loop, then the token after the last '/'
parse_params(params) ==
    LET l == parse_loop(params, 0, <<>>)
    IN  IF l.start < Len(params)
        THEN add_pair(l.map, substr_from(params, l.start))
        ELSE l.map

\* what one call does: lines to cout and to cerr, and whether it threw
Said(line) == [out |-> <<line>>, err |-> <<>>, threw |-> FALSE]

Complained(line) == [out |-> <<>>, err |-> <<line>>, threw |-> FALSE]

Silent == [out |-> <<>>, err |-> <<>>, threw |-> FALSE]

Threw == [out |-> <<>>, err |-> <<>>, threw |-> TRUE]

RecognizedCommands ==
    {"create_user", "create_room", "invite_user", "login_user", "join_room",
     "send_text", "exit_room", "kick_user", "grant_host"}

\* the switch on command[0] and the string comparison inside each case
dispatch(command, pm) ==
    LET c       == CharAt(command, 0)
        room_id == stoi(at(pm, "room_id"))
        user_id == stoi(at(pm, "user_id"))
        target  == stoi(at(pm, "target_user_id"))
    IN  CASE c = "c" ->
               IF command = "create_user"
               THEN Said("Creating user with id: " \o at(pm, "id")
                         \o " and password: " \o at(pm, "password"))
               ELSE IF command = "create_room" \/ command = "invite_user"
               THEN Said("Creating room or inviting with title: "
                         \o at(pm, "title"))
               ELSE Silent
          [] c = "l" ->
               IF command = "login_user"
               THEN Said("Logging in user with id: " \o at(pm, "id")
                         \o " and password: " \o at(pm, "password"))
               ELSE Silent
          [] c = "j" ->
               IF command = "join_room"
               THEN IF room_id.threw THEN Threw
                    ELSE Said("Joining room with id: " \o ToString(room_id.val))
               ELSE Silent
          [] c = "s" ->
               IF command = "send_text"
               THEN IF room_id.threw \/ user_id.threw THEN Threw
                    ELSE Said("User " \o ToString(user_id.val)
                              \o " is sending message: " \o at(pm, "text")
                              \o " in room " \o ToString(room_id.val))
               ELSE Silent
          [] c = "e" ->
               IF command = "exit_room"
               THEN IF room_id.threw \/ user_id.threw THEN Threw
                    ELSE Said("User " \o ToString(user_id.val)
                              \o " is exiting room " \o ToString(room_id.val))
               ELSE Silent
          [] c = "k" ->
               IF command = "kick_user"
               THEN IF room_id.threw \/ user_id.threw \/ target.threw THEN Threw
                    ELSE Said("User " \o ToString(user_id.val)
                              \o " is kicking user " \o ToString(target.val)
                              \o " from room " \o ToString(room_id.val))
               ELSE Silent
          [] c = "g" ->
               IF command = "grant_host"
               THEN IF room_id.threw \/ user_id.threw \/ target.threw THEN Threw
                    ELSE Said("User " \o ToString(user_id.val)
                              \o " is granting host role to user "
                              \o ToString(target.val)
                              \o " in room " \o ToString(room_id.val))
               ELSE Silent
          [] OTHER -> Complained("Unknown command: " \o command)

\* the command and the parameter section of a message that has a '?'
command_of(message) == substr(message, 0, find(message, "?", 0))

params_of(message) == substr_from(message, find(message, "?", 0) + 1)

\* a check_message that goes on without looking at delimiter_pos: substr(0,
\* npos) and substr(npos + 1) are both the whole message
check_message_unchecked(message) ==
    dispatch(message, parse_params(message))

check_message(message) ==
    LET delimiter_pos == find(message, "?", 0)
        command       == command_of(message)
        param_map     == parse_params(params_of(message))
    IN  IF delimiter_pos = npos
        THEN Complained("Invalid message format: " \o message)
        ELSE IF command = ""
        THEN Complained("Empty command received.")
        ELSE dispatch(command, param_map)

(***************************************************************************)
(* Initial state: the server is constructed, nothing is accepted yet.      *)
(***************************************************************************)
Init ==
    /\ running = TRUE
    /\ pc = [s \in Sessions |-> "unaccepted"]
    /\ room_id_ = [s \in Sessions |-> 0]
    /\ user_ = [s \in Sessions |-> NULL]
    /\ buffer_ = [s \in Sessions |-> ""]
    /\ rooms_ = <<>>
    /\ users_ = <<>>
    /\ sent = [s \in Sessions |-> <<>>]
    /\ accepted = <<>>
    /\ talks = <<>>
    /\ cout = <<>>
    /\ cerr = <<>>
    /\ werr = NULL
    /\ leave_calls = 0
    /\ handled = <<>>

\* number of complete lines waiting in all buffers
RECURSIVE Pending(_)
Pending(S) ==
    IF S = {} THEN 0
    ELSE LET s == CHOOSE x \in S : TRUE
         IN  LineCount(buffer_[s]) + Pending(S \ {s})

\* what a handler leaves behind when its broadcast had outcome o: the
\* socket streams, and, when a write raised, the exception reaching main
Wrote(o, message, log) ==
    /\ sent' = written(sent, o, message)
    /\ werr' = o.failed
    /\ running' = (o.failed = NULL)
    /\ cerr' = cerr \o log \o (IF o.failed = NULL THEN <<>> ELSE Uncaught("write"))

(***************************************************************************)
(* ChatServer::do_accept: the completion handler of async_accept.  The     *)
(* session is constructed without a value for room_id_, started without a  *)
(* user, and its first read is posted.  Sessions are numbered in the order *)
(* in which they are accepted.                                             *)
(***************************************************************************)
Accept(s) ==
    /\ running
    /\ pc[s] = "unaccepted"
    /\ \A t \in Sessions : t < s => pc[t] # "unaccepted"
    /\ \E v \in Indeterminate : room_id_' = [room_id_ EXCEPT ![s] = v]
    /\ user_' = [user_ EXCEPT ![s] = NULL]
    /\ pc' = [pc EXCEPT ![s] = "initial"]
    /\ cout' = Append(cout, "New connection from ")
    /\ UNCHANGED <<handled, running, buffer_, rooms_, users_, sent, accepted, talks,
                   cerr, werr, leave_calls>>

(***************************************************************************)
(* The peer of session s sends one line.  At most MaxBuf lines wait in the *)
(* buffers of all sessions together.                                       *)
(***************************************************************************)
ClientSend(s, line) ==
    /\ running
    /\ pc[s] \in {"initial", "read"}
    /\ Pending(Sessions) < MaxBuf
    /\ line \in (IF pc[s] = "initial" /\ ~HasLine(buffer_[s])
                 THEN HandshakeLines ELSE ChatLines)
    /\ buffer_' = [buffer_ EXCEPT ![s] = @ \o line \o NL]
    /\ UNCHANGED <<handled, running, pc, room_id_, user_, rooms_, users_, sent,
                   accepted, talks, cout, cerr, werr, leave_calls>>

(***************************************************************************)
(* A read_initial_data whose handler posts read_initial_data again instead *)
(* of do_read: every line of the connection is taken as a first line.      *)
(***************************************************************************)
ReadInitialData_again(s) ==
    /\ running
    /\ pc[s] = "initial"
    /\ HasLine(buffer_[s])
    /\ LET length == ReadLength(buffer_[s])
           data   == substr(buffer_[s], 0, length - 1)
           p      == parse_initial_data(data, room_id_[s])
           id     == p.room_id_
           reg    == get_or_create_room(rooms_, id)
           joined == [reg EXCEPT ![id] = insert(@, s)]
       IN  /\ buffer_' = [buffer_ EXCEPT ![s] = substr_from(@, length)]
           /\ IF p.threw
              THEN /\ running' = FALSE
                   /\ cerr' = cerr \o Uncaught("stoi")
                   /\ pc' = [pc EXCEPT ![s] = "idle"]
                   /\ UNCHANGED <<room_id_, rooms_, sent, werr>>
              ELSE /\ room_id_' = [room_id_ EXCEPT ![s] = id]
                   /\ rooms_' = joined
                   /\ \E o \in broadcast(joined[id]) :
                        /\ Wrote(o, JOIN_NOTICE, p.err)
                        /\ pc' = [pc EXCEPT ![s] =
                                     IF o.failed = NULL THEN "initial" ELSE "idle"]
    /\ UNCHANGED <<handled, user_, users_, accepted, talks, cout, leave_calls>>

(***************************************************************************)
(* ChatSession::read_initial_data, the handler's success branch.           *)
(***************************************************************************)
ReadInitialData(s) ==
    /\ running
    /\ pc[s] = "initial"
    /\ HasLine(buffer_[s])
    /\ LET length == ReadLength(buffer_[s])
           data   == substr(buffer_[s], 0, length - 1)
           p      == parse_initial_data(data, room_id_[s])
           id     == p.room_id_
           reg    == get_or_create_room(rooms_, id)
           joined == [reg EXCEPT ![id] = insert(@, s)]
       IN  /\ buffer_' = [buffer_ EXCEPT ![s] = substr_from(@, length)]
           /\ IF p.threw
              THEN /\ running' = FALSE
                   /\ cerr' = cerr \o Uncaught("stoi")
                   /\ pc' = [pc EXCEPT ![s] = "idle"]
                   /\ UNCHANGED <<room_id_, rooms_, sent, werr>>
              ELSE /\ room_id_' = [room_id_ EXCEPT ![s] = id]
                   /\ rooms_' = joined
                   /\ \E o \in broadcast(joined[id]) :
                        /\ Wrote(o, JOIN_NOTICE, p.err)
                        /\ pc' = [pc EXCEPT ![s] =
                                     IF o.failed = NULL THEN "read" ELSE "idle"]
    /\ UNCHANGED <<handled, user_, users_, accepted, talks, cout, leave_calls>>

(***************************************************************************)
(* ChatSession::read_initial_data, the handler's error branch.             *)
(***************************************************************************)
ReadInitialError(s) ==
    /\ running
    /\ pc[s] = "initial"
    /\ ~HasLine(buffer_[s])
    /\ cerr' = Append(cerr, "Error reading initial data: ")
    /\ pc' = [pc EXCEPT ![s] = "idle"]
    /\ UNCHANGED <<handled, running, room_id_, user_, buffer_, rooms_, users_, sent,
                   accepted, talks, cout, werr, leave_calls>>

(***************************************************************************)
(* ChatSession::do_read, the handler's success branch.                     *)
(***************************************************************************)
DoReadMessage(s) ==
    /\ running
    /\ pc[s] = "read"
    /\ HasLine(buffer_[s])
    /\ Len(accepted) < MaxMsgs
    /\ LET length  == ReadLength(buffer_[s])
           message == substr(buffer_[s], 0, length - 1)
           id      == room_id_[s]
           reg     == get_or_create_room(rooms_, id)
       IN  /\ buffer_' = [buffer_ EXCEPT ![s] = substr_from(@, length)]
           /\ rooms_' = reg
           /\ accepted' = Append(accepted,
                              [session |-> s, room_id |-> id, text |-> message])
           /\ \E o \in broadcast(reg[id]) :
                /\ Wrote(o, message, <<>>)
                /\ pc' = [pc EXCEPT ![s] =
                             IF o.failed = NULL THEN "read" ELSE "idle"]
    /\ UNCHANGED <<handled, room_id_, user_, users_, talks, cout, leave_calls>>

(***************************************************************************)
(* ChatSession::do_read, the handler's error branch.                       *)
(***************************************************************************)
DoReadError(s) ==
    /\ running
    /\ pc[s] = "read"
    /\ ~HasLine(buffer_[s])
    /\ LET id   == room_id_[s]
           reg  == get_or_create_room(rooms_, id)
           left == [reg EXCEPT ![id] = erase(@, s)]
       IN  /\ rooms_' = left
           /\ \E o \in broadcast(left[id]) : Wrote(o, LEAVE_NOTICE, <<>>)
    /\ pc' = [pc EXCEPT ![s] = "idle"]
    /\ UNCHANGED <<handled, room_id_, user_, buffer_, users_, accepted, talks, cout,
                   leave_calls>>

(***************************************************************************)
(* ChatSession::leave_room, a public method: callable on any session that  *)
(* was started.                                                            *)
(***************************************************************************)
LeaveRoom(s) ==
    /\ running
    /\ pc[s] # "unaccepted"
    /\ leave_calls < MaxLeaveCalls
    /\ leave_calls' = leave_calls + 1
    /\ LET id   == room_id_[s]
           reg  == get_or_create_room(rooms_, id)
           left == [reg EXCEPT ![id] = erase(@, s)]
       IN  \E o \in broadcast(left[id]) :
             /\ Wrote(o, LEAVE_NOTICE, <<>>)
             /\ IF o.failed = NULL
                THEN /\ rooms_' = remove_empty_room(left, id)
                     /\ cout' = IF removes(left, id)
                                THEN Append(cout, "Room " \o ToString(id)
                                       \o " has been removed (no members).")
                                ELSE cout
                ELSE /\ rooms_' = left
                     /\ cout' = cout
    /\ UNCHANGED <<handled, pc, room_id_, user_, buffer_, users_, accepted, talks>>

Next ==
    \/ \E s \in Sessions : Accept(s)
    \/ \E s \in Sessions : \E line \in HandshakeLines \cup ChatLines : ClientSend(s, line)
    \/ \E s \in Sessions : ReadInitialData(s)
    \/ \E s \in Sessions : ReadInitialError(s)
    \/ \E s \in Sessions : DoReadMessage(s)
    \/ \E s \in Sessions : DoReadError(s)
    \/ \E s \in Sessions : LeaveRoom(s)

Spec == Init /\ [][Next]_vars

(***************************************************************************)
(* The command dispatcher.  check_message takes the message alone, so it   *)
(* can be applied in any state of the server; it is modelled beside the    *)
(* handlers that bring sessions into room 1.                               *)
(***************************************************************************)
Messages ==
    {"create_user?id:a/password:b",
     "login_user?id:a/password:b",
     "create_room?title:t",
     "invite_user?title:t",
     "join_room?room_id:1",
     "send_text?room_id:1/user_id:2/text:t",
     "exit_room?room_id:1/user_id:2",
     "kick_user?room_id:1/user_id:2/target_user_id:1",
     "grant_host?room_id:1/user_id:2/target_user_id:1",
     "create_x?id:a",
     "sendtext?text:t",
     "zap?k:v",
     "hello",
     "join_room/room_id:1",
     "?id:a",
     "join_room?room_id:x",
     "send_text?room_id:1/text:t",
     "join_room?junk/room_id:1/room_id:2/"}

CheckMessage(message) ==
    /\ running
    /\ Len(handled) < MaxCmds
    /\ LET r == check_message(message)
       IN  /\ handled' = Append(handled, [message |-> message, result |-> r])
           /\ cout' = cout \o r.out
           /\ cerr' = cerr \o r.err \o (IF r.threw THEN Uncaught("stoi") ELSE <<>>)
           /\ running' = ~r.threw
    /\ UNCHANGED <<pc, room_id_, user_, buffer_, rooms_, users_, sent,
                   accepted, talks, werr, leave_calls>>

NextDispatch ==
    \/ \E s \in Sessions : Accept(s)
    \/ \E s \in Sessions : ClientSend(s, "1,7")
    \/ \E s \in Sessions : ReadInitialData(s)
    \/ \E message \in Messages : CheckMessage(message)

SpecDispatch == Init /\ [][NextDispatch]_vars

(***************************************************************************)
(* Vocabulary of the properties.                                           *)
(***************************************************************************)
IsPrefix(a, b) == Len(a) <= Len(b) /\ SubSeq(b, 1, Len(a)) = a

StartsWith(str, prefix) ==
    Len(str) >= Len(prefix) /\ SubSeq(str, 1, Len(prefix)) = prefix

Last(seq) == seq[Len(seq)]

\* the sessions that joined a room and still have a read posted
InRoomSessions(r) == {s \in Sessions : pc[s] = "read" /\ room_id_[s] = r}

\* the hosts of the room registered under id: ChatRoom has no data member
\* besides members_, so a room record carries a host only if it has the field
HostOf(rooms, id) ==
    IF id \in DOMAIN rooms /\ "host_" \in DOMAIN rooms[id]
    THEN {rooms[id].host_}
    ELSE {}

\* a session is authenticated when a user is bound to it
Authenticated(s) == user_[s] # NULL

\* the error a call of check_message reports, in the terms of the error
\* taxonomy, read off what the call wrote and whether it threw
Reported(r) ==
    IF r.threw THEN "UncaughtException"
    ELSE IF r.err = <<>> THEN "None"
    ELSE IF StartsWith(r.err[1], "Invalid message format") THEN "MalformedMessage"
    ELSE IF StartsWith(r.err[1], "Unknown command") THEN "UnknownCommand"
    ELSE "EmptyCommand"

HasCommand(message, command) ==
    find(message, "?", 0) # npos /\ command_of(message) = command

ParamsOf(message) == parse_params(params_of(message))

\* a handshake line that lacks the separator or whose room id is no number
BadHandshake(data) ==
    \/ find(data, ",", 0) = npos
    \/ stoi(substr(data, 0, find(data, ",", 0))).threw

\* this step is the read_initial_data handler of s taking a line
TakesInitialLine(s) ==
    running /\ pc[s] = "initial" /\ HasLine(buffer_[s])
    /\ Len(buffer_'[s]) < Len(buffer_[s])

\* this step is a call of check_message
Handles == Len(handled') = Len(handled) + 1

(***************************************************************************)
(* C1.  Between two handlers, every room of the registry has as many       *)
(* members as there are sessions whose room is that room (sessions that    *)
(* joined and are still connected).                                        *)
(***************************************************************************)
C1_MemberCountMatchesSessions ==
    running =>
        \A r \in DOMAIN rooms_ :
            member_count(rooms_[r]) = Cardinality(InRoomSessions(r))

(***************************************************************************)
(* C2.  When a handler starts, the registry holds no room without members. *)
(***************************************************************************)
C2_NoEmptyRoomSurvives ==
    running => \A r \in DOMAIN rooms_ : member_count(rooms_[r]) > 0

(***************************************************************************)
(* C3.  The room is a FIFO sequencer.  Socket streams only grow at their   *)
(* end.  The step that accepts a chat line appends that line to the stream *)
(* of every member of the sender's room and to no other stream (when a     *)
(* write raises, to some of the members and to no other stream).  No other *)
(* step appends anything but a join or leave notice.  Hence two accepted   *)
(* lines appear in acceptance order in the stream of every session that    *)
(* was a member at both broadcasts, and a line never reaches a session     *)
(* that joined after its broadcast.                                        *)
(***************************************************************************)
C3_RoomIsFifoSequencer ==
    [][/\ \A s \in Sessions : IsPrefix(sent[s], sent'[s])
       /\ IF Len(accepted') > Len(accepted)
          THEN LET m       == Last(accepted')
                   members == rooms_'[m.room_id].members_
                   more(s) == Append(sent[s], m.text \o NL)
               IN  \A s \in Sessions :
                      IF s \in members
                      THEN IF running'
                           THEN sent'[s] = more(s)
                           ELSE sent'[s] \in {sent[s], more(s)}
                      ELSE sent'[s] = sent[s]
          ELSE \A s \in Sessions :
                  sent'[s] \in {sent[s],
                                Append(sent[s], JOIN_NOTICE \o NL),
                                Append(sent[s], LEAVE_NOTICE \o NL)}
      ]_vars

\* session 1 was in room 1 for both lines, session 2 joined between them
C3_Witness ==
    /\ Len(accepted) = 2
    /\ accepted[1].room_id = 1 /\ accepted[2].room_id = 1
    /\ accepted[1].text = "hi" /\ accepted[2].text = "1,7"
    /\ 1 \in DOMAIN rooms_ /\ rooms_[1].members_ = {1, 2}
    /\ sent[1] = <<JOIN_NOTICE \o NL, "hi" \o NL, JOIN_NOTICE \o NL, "1,7" \o NL>>
    /\ sent[2] = <<JOIN_NOTICE \o NL, "1,7" \o NL>>

(***************************************************************************)
(* C4.  Every chat line accepted and broadcast has exactly one row in the  *)
(* talks table, carrying its room, its sender's user and its text.         *)
(***************************************************************************)
C4_OneRowPerMessage ==
    /\ Len(talks) = Len(accepted)
    /\ \A i \in 1..Len(accepted) :
          /\ talks[i].room_id = accepted[i].room_id
          /\ talks[i].user_id = user_[accepted[i].session]
          /\ talks[i].text = accepted[i].text

(***************************************************************************)
(* C5.  A first line that lacks its separator or whose id is not a number  *)
(* is a recovered error: the event loop keeps running, the connection      *)
(* keeps a read posted, and no session's and no room's state changes.      *)
(***************************************************************************)
C5_BadLineIsRecovered ==
    [][\A s \in Sessions :
          (TakesInitialLine(s)
             /\ BadHandshake(substr(buffer_[s], 0, ReadLength(buffer_[s]) - 1)))
          => /\ running'
             /\ pc'[s] \in {"initial", "read"}
             /\ room_id_' = room_id_
             /\ rooms_' = rooms_
             /\ sent' = sent
      ]_vars

(***************************************************************************)
(* C6.  Every room that has members has exactly one host, and the host is  *)
(* one of its members.                                                     *)
(***************************************************************************)
C6_NonEmptyRoomHasOneHost ==
    \A r \in DOMAIN rooms_ :
        rooms_[r].members_ # {} =>
            /\ Cardinality(HostOf(rooms_, r)) = 1
            /\ HostOf(rooms_, r) \subseteq rooms_[r].members_

(***************************************************************************)
(* C7.  A session that has not authenticated is a member of no room, and   *)
(* no line of such a session is taken for broadcast.                       *)
(***************************************************************************)
C7_UnauthenticatedStaysOut ==
    /\ \A r \in DOMAIN rooms_ : \A s \in rooms_[r].members_ : Authenticated(s)
    /\ \A i \in 1..Len(accepted) : Authenticated(accepted[i].session)

(***************************************************************************)
(* C8.  A create_user whose login id was used by an earlier successful     *)
(* create_user fails with DuplicateLogin and leaves the user registry as   *)
(* it was.                                                                 *)
(***************************************************************************)
C8_DuplicateLoginRejected ==
    [][(/\ Handles
        /\ HasCommand(Last(handled').message, "create_user")
        /\ \E i \in 1..Len(handled) :
              /\ HasCommand(handled[i].message, "create_user")
              /\ Reported(handled[i].result) = "None"
              /\ at(ParamsOf(handled[i].message), "id")
                   = at(ParamsOf(Last(handled').message), "id"))
       => /\ Reported(Last(handled').result) = "DuplicateLogin"
          /\ users_' = users_
      ]_vars

(***************************************************************************)
(* C9.  A kick_user whose caller is not the host of the named room fails   *)
(* with NotHost and changes no room's membership.                          *)
(***************************************************************************)
C9_KickByNonHostRejected ==
    [][(/\ Handles
        /\ HasCommand(Last(handled').message, "kick_user")
        /\ LET pm == ParamsOf(Last(handled').message)
           IN  /\ ~stoi(at(pm, "room_id")).threw
               /\ ~stoi(at(pm, "user_id")).threw
               /\ stoi(at(pm, "user_id")).val
                    \notin HostOf(rooms_, stoi(at(pm, "room_id")).val))
       => /\ Reported(Last(handled').result) = "NotHost"
          /\ rooms_' = rooms_
      ]_vars

(***************************************************************************)
(* C10.  Every command that is not one of the recognized names, also one   *)
(* that shares a first character or a prefix with a recognized name, is    *)
(* answered with UnknownCommand.                                           *)
(***************************************************************************)
C10_UnrecognizedIsUnknownCommand ==
    \A i \in 1..Len(handled) :
        (/\ find(handled[i].message, "?", 0) # npos
         /\ command_of(handled[i].message) # ""
         /\ command_of(handled[i].message) \notin RecognizedCommands)
        => Reported(handled[i].result) = "UnknownCommand"

\* the rooms of a registry that have session s among their members
RoomsOf(rooms, s) == {r \in DOMAIN rooms : s \in rooms[r].members_}

\* this step is the error branch of do_read for s: the connection ended
Disconnects(s) ==
    running /\ pc[s] = "read" /\ pc'[s] = "idle" /\ accepted' = accepted

(***************************************************************************)
(* C11.  When the connection of a session ends, the session is a member of *)
(* no room afterwards; and when it had already left its room (through      *)
(* leave_room), handling the disconnect changes nothing further: no        *)
(* membership changes, no notice is sent, no room is created.              *)
(***************************************************************************)
C11_DisconnectIsIdempotent ==
    [][\A s \in Sessions :
          Disconnects(s) =>
             /\ RoomsOf(rooms_', s) = {}
             /\ RoomsOf(rooms_, s) = {} => (rooms_' = rooms_ /\ sent' = sent)
      ]_vars

(***************************************************************************)
(* C12.  A write that fails on one member's connection during a broadcast  *)
(* is not raised to the caller and does not keep the message from the      *)
(* other members: the event loop keeps running and every other member of   *)
(* that room has been written to.                                          *)
(***************************************************************************)
C12_WriteFailureIsContained ==
    [][(werr = NULL /\ werr' # NULL) =>
          /\ running'
          /\ \A r \in RoomsOf(rooms_', werr') :
                \A m \in rooms_'[r].members_ \ {werr'} :
                   Len(sent'[m]) = Len(sent[m]) + 1
      ]_vars

(***************************************************************************)
(* Two lines of the peer of session s arrive together, in one segment:     *)
(* async_read_until finds both in buffer_ when it completes.               *)
(***************************************************************************)
ClientBurst(s, first, second) ==
    /\ running
    /\ pc[s] \in {"initial", "read"}
    /\ Pending(Sessions) = 0
    /\ first \in (IF pc[s] = "initial" THEN HandshakeLines ELSE ChatLines)
    /\ second \in ChatLines
    /\ buffer_' = [buffer_ EXCEPT ![s] = @ \o first \o NL \o second \o NL]
    /\ UNCHANGED <<handled, running, pc, room_id_, user_, rooms_, users_, sent,
                   accepted, talks, cout, cerr, werr, leave_calls>>

NextPipeline ==
    \/ \E s \in Sessions : Accept(s)
    \/ \E s \in Sessions :
         \E first \in HandshakeLines \cup ChatLines, second \in ChatLines :
            ClientBurst(s, first, second)
    \/ \E s \in Sessions : ReadInitialData(s)
    \/ \E s \in Sessions : ReadInitialError(s)
    \/ \E s \in Sessions : DoReadMessage(s)
    \/ \E s \in Sessions : DoReadError(s)

SpecPipeline == Init /\ [][NextPipeline]_vars

\* the first line of a buffer without its "\n", and what follows that line
FirstLine(buf) == substr(buf, 0, find(buf, NL, 0))
AfterFirstLine(buf) == substr_from(buf, find(buf, NL, 0) + 1)

\* buffer_ of s only received bytes at its end in this step
Received(s) ==
    /\ Len(buffer_'[s]) >= Len(buffer_[s])
    /\ SubSeq(buffer_'[s], 1, Len(buffer_[s])) = buffer_[s]

\* exactly the first line of buffer_ of s was taken out in this step
ConsumedOneLine(s) ==
    /\ HasLine(buffer_[s])
    /\ buffer_'[s] = AfterFirstLine(buffer_[s])

(***************************************************************************)
(* C13.  The lines of a connection are processed one at a time and in      *)
(* arrival order: in one step at most one session's buffer loses bytes,    *)
(* what it loses is exactly its first line, however many lines wait in it, *)
(* and a chat line that is accepted is that first line, accepted (and      *)
(* broadcast) by the step that took it out.                                *)
(***************************************************************************)
C13_OneLinePerCompletion ==
    [][/\ \A s \in Sessions : Received(s) \/ ConsumedOneLine(s)
       /\ \A s, t \in Sessions :
             (~Received(s) /\ ~Received(t)) => s = t
       /\ Len(accepted') > Len(accepted) =>
             /\ Len(accepted') = Len(accepted) + 1
             /\ SubSeq(accepted', 1, Len(accepted)) = accepted
             /\ LET m == accepted'[Len(accepted')]
                IN  /\ ConsumedOneLine(m.session)
                    /\ m.text = FirstLine(buffer_[m.session])
      ]_vars

\* the first line came together with a chat line, then two chat lines came
\* together: the first of these was accepted, the second still waits
C13_Witness ==
    \E s \in Sessions :
       /\ pc[s] = "read"
       /\ Len(accepted) = 2
       /\ accepted[1].session = s
       /\ accepted[2].session = s
       /\ LineCount(buffer_[s]) = 1

(***************************************************************************)
(* C14.  In every reachable state a session is in the membership set of at *)
(* most one room, and a step that makes a session a member of a room finds *)
(* that session in no room before.                                         *)
(***************************************************************************)
C14_AtMostOneRoomPerSession ==
    /\ [](\A s \in Sessions : Cardinality(RoomsOf(rooms_, s)) <= 1)
    /\ [][\A s \in Sessions :
             RoomsOf(rooms_', s) \ RoomsOf(rooms_, s) # {} =>
                RoomsOf(rooms_, s) = {}
         ]_vars

\* two sessions are members, each of its own room
C14_Witness ==
    \E s, t \in Sessions :
       /\ s # t
       /\ RoomsOf(rooms_, s) = {1}
       /\ RoomsOf(rooms_, t) = {2}

(***************************************************************************)
(* The first version of the server (src/chat_server): one ChatRoom, held   *)
(* by the ChatServer as room_, that every accepted session joins, and a    *)
(* do_read that stores every line it has broadcast.  The room is kept in   *)
(* rooms_ under ROOM_ID, the id do_accept gives to every session.          *)
(***************************************************************************)
ROOM_ID == 1
USER_ID == 1

\* what the sqlite calls of save_message_to_db can come to
DbOutcomes == {"done", "open_failed", "prepare_failed", "step_failed"}

\* ChatRoom::save_message_to_db: the rows of talks afterwards, and what was
\* written to cerr
save_message_to_db(rows, room_id, user_id, message, db) ==
    [rows |-> IF db = "done"
              THEN Append(rows, [room_id |-> room_id, user_id |-> user_id,
                                 text |-> message])
              ELSE rows,
     err  |-> CASE db = "done"           -> <<>>
                [] db = "open_failed"    -> <<"Can't open database: ">>
                [] db = "prepare_failed" -> <<"Failed to prepare statement: ">>
                [] db = "step_failed"    -> <<"Failed to insert message: ">>]

InitV1 ==
    /\ running = TRUE
    /\ pc = [s \in Sessions |-> "unaccepted"]
    /\ room_id_ = [s \in Sessions |-> 0]
    /\ user_ = [s \in Sessions |-> NULL]
    /\ buffer_ = [s \in Sessions |-> ""]
    /\ rooms_ = (ROOM_ID :> ChatRoom)
    /\ users_ = <<>>
    /\ sent = [s \in Sessions |-> <<>>]
    /\ accepted = <<>>
    /\ talks = <<>>
    /\ cout = <<>>
    /\ cerr = <<>>
    /\ werr = NULL
    /\ leave_calls = 0
    /\ handled = <<>>

\* ChatServer::do_accept and ChatSession::start of the first version: the
\* session gets the fixed ids, joins room_ and posts its read
AcceptV1(s) ==
    /\ running
    /\ pc[s] = "unaccepted"
    /\ \A t \in Sessions : t < s => pc[t] # "unaccepted"
    /\ room_id_' = [room_id_ EXCEPT ![s] = ROOM_ID]
    /\ user_' = [user_ EXCEPT ![s] = USER_ID]
    /\ cout' = Append(cout, "New connection from ")
    /\ LET joined == [rooms_ EXCEPT ![ROOM_ID] = insert(@, s)]
       IN  /\ rooms_' = joined
           /\ \E o \in broadcast(joined[ROOM_ID]) :
                /\ Wrote(o, JOIN_NOTICE, <<>>)
                /\ pc' = [pc EXCEPT ![s] =
                             IF o.failed = NULL THEN "read" ELSE "idle"]
    /\ UNCHANGED <<handled, buffer_, users_, accepted, talks, leave_calls>>

\* a do_read that stores the line first and gives up when that fails
DoReadMessageV1_save_first(s, db) ==
    /\ running
    /\ pc[s] = "read"
    /\ HasLine(buffer_[s])
    /\ Len(accepted) < MaxMsgs
    /\ LET length  == ReadLength(buffer_[s])
           message == substr(buffer_[s], 0, length - 1)
           saved   == save_message_to_db(talks, room_id_[s], user_[s], message, db)
       IN  /\ buffer_' = [buffer_ EXCEPT ![s] = substr_from(@, length)]
           /\ accepted' = Append(accepted, [session |-> s,
                              room_id |-> room_id_[s], text |-> message])
           /\ talks' = saved.rows
           /\ IF db = "done"
              THEN \E o \in broadcast(rooms_[ROOM_ID]) :
                     /\ Wrote(o, message, <<>>)
                     /\ pc' = [pc EXCEPT ![s] =
                                  IF o.failed = NULL THEN "read" ELSE "idle"]
              ELSE /\ cerr' = cerr \o saved.err
                   /\ pc' = [pc EXCEPT ![s] = "idle"]
                   /\ UNCHANGED <<sent, werr, running>>
    /\ UNCHANGED <<handled, room_id_, user_, rooms_, users_, cout, leave_calls>>

\* ChatSession::do_read of the first version, the handler's success branch:
\* broadcast, then save_message_to_db, then the next read
DoReadMessageV1(s, db) ==
    /\ running
    /\ pc[s] = "read"
    /\ HasLine(buffer_[s])
    /\ Len(accepted) < MaxMsgs
    /\ LET length  == ReadLength(buffer_[s])
           message == substr(buffer_[s], 0, length - 1)
           saved   == save_message_to_db(talks, room_id_[s], user_[s], message, db)
       IN  /\ buffer_' = [buffer_ EXCEPT ![s] = substr_from(@, length)]
           /\ accepted' = Append(accepted, [session |-> s,
                              room_id |-> room_id_[s], text |-> message])
           /\ \E o \in broadcast(rooms_[ROOM_ID]) :
                IF o.failed = NULL
                THEN /\ Wrote(o, message, saved.err)
                     /\ talks' = saved.rows
                     /\ pc' = pc
                ELSE /\ Wrote(o, message, <<>>)
                     /\ talks' = talks
                     /\ pc' = [pc EXCEPT ![s] = "idle"]
    /\ UNCHANGED <<handled, room_id_, user_, rooms_, users_, cout, leave_calls>>

\* ChatSession::do_read of the first version, the handler's error branch
DoReadErrorV1(s) ==
    /\ running
    /\ pc[s] = "read"
    /\ ~HasLine(buffer_[s])
    /\ LET left == [rooms_ EXCEPT ![ROOM_ID] = erase(@, s)]
       IN  /\ rooms_' = left
           /\ \E o \in broadcast(left[ROOM_ID]) : Wrote(o, LEAVE_NOTICE, <<>>)
    /\ pc' = [pc EXCEPT ![s] = "idle"]
    /\ UNCHANGED <<handled, room_id_, user_, buffer_, users_, accepted, talks, cout,
                   leave_calls>>

NextV1 ==
    \/ \E s \in Sessions : AcceptV1(s)
    \/ \E s \in Sessions : \E line \in ChatLines : ClientSend(s, line)
    \/ \E s \in Sessions : \E db \in DbOutcomes : DoReadMessageV1(s, db)
    \/ \E s \in Sessions : DoReadErrorV1(s)

SpecV1 == InitV1 /\ [][NextV1]_vars

\* this step took a line, broadcast it to the end, and added no row to talks
StoreFailed ==
    /\ Len(accepted') = Len(accepted) + 1
    /\ werr' = NULL
    /\ talks' = talks

(***************************************************************************)
(* C15.  When appending a message to the store fails (open, prepare or     *)
(* step), the failure is logged and nothing else: the message has been     *)
(* written to every member of the room, memberships and session state are  *)
(* as before, and the session has its next read posted.                    *)
(***************************************************************************)
C15_StoreFailureIsOnlyLogged ==
    [][StoreFailed =>
          LET m == accepted'[Len(accepted')]
          IN  /\ running'
              /\ Len(cerr') = Len(cerr) + 1
              /\ cerr'[Len(cerr')] \in {"Can't open database: ",
                                        "Failed to prepare statement: ",
                                        "Failed to insert message: "}
              /\ \A t \in rooms_[ROOM_ID].members_ :
                    sent'[t] = Append(sent[t], m.text \o NL)
              /\ rooms_' = rooms_
              /\ pc' = pc
              /\ pc'[m.session] = "read"
              /\ room_id_' = room_id_
              /\ user_' = user_
      ]_vars

\* both sessions are in the room, a line of session 1 reached both, its
\* insert failed at the step, and session 1 is reading on
C15_Witness ==
    /\ rooms_[ROOM_ID].members_ = {1, 2}
    /\ Len(accepted) = 1
    /\ accepted[1].session = 1
    /\ talks = <<>>
    /\ cerr = <<"Failed to insert message: ">>
    /\ sent[2] = <<JOIN_NOTICE \o NL, accepted[1].text \o NL>>
    /\ pc[1] = "read"

(***************************************************************************)
(* C16.  A message without '?' is rejected as malformed whatever else it   *)
(* holds: check_message reports the format error and nothing else, no      *)
(* command handler writes anything, and no state of the server changes.    *)
(***************************************************************************)
C16_NoDelimiterIsMalformed ==
    [][Handles =>
          LET h == Last(handled')
          IN  find(h.message, "?", 0) = npos =>
                 /\ Reported(h.result) = "MalformedMessage"
                 /\ h.result.out = <<>>
                 /\ running'
                 /\ cout' = cout
                 /\ cerr' = Append(cerr, "Invalid message format: " \o h.message)
                 /\ UNCHANGED <<pc, room_id_, user_, buffer_, rooms_, users_,
                                sent, accepted, talks, werr, leave_calls>>
      ]_vars

\* a message that names a command and a parameter, but with '/' for '?',
\* was handled while a session was in room 1
C16_Witness ==
    /\ 1 \in DOMAIN rooms_
    /\ rooms_[1].members_ # {}
    /\ handled # <<>>
    /\ Last(handled).message = "join_room/room_id:1"
    /\ Last(handled).result = Complained("Invalid message format: join_room/room_id:1")

(***************************************************************************)
(* The parameter loop of check_message on its own: parameter sections are  *)
(* put together from up to MaxTokens tokens, joined by '/', with and       *)
(* without a '/' after the last one, and each is handled by a server that  *)
(* has handled nothing before.                                             *)
(***************************************************************************)
MaxTokens == 3

ParamTokens == {"k:a", "k:b", "j:a", "junk", "", "k:a:b", ":a", "k:"}

RECURSIVE Join(_)
Join(tokens) ==
    IF Len(tokens) = 1 THEN tokens[1]
    ELSE tokens[1] \o "/" \o Join(Tail(tokens))

ParamInputs ==
    LET joined == {Join(t) : t \in UNION {[1..n -> ParamTokens] : n \in 1..MaxTokens}}
    IN  joined \cup {p \o "/" : p \in joined}

ParseStep(params) ==
    /\ handled = <<>>
    /\ CheckMessage("create_room?" \o params)

NextParse == \E params \in ParamInputs : ParseStep(params)

SpecParse == Init /\ [][NextParse]_vars

\* The tokens of a parameter section, each known by the position where it
\* starts: position 0 and every position that follows a '/'.
TokenStarts(p) == {0} \cup {i + 1 : i \in {j \in 0..(Len(p) - 1) : CharAt(p, j) = "/"}}

TokenAt(p, a) ==
    LET ends == {i \in a..(Len(p) - 1) : CharAt(p, i) = "/"}
        end  == IF ends = {} THEN Len(p)
                ELSE CHOOSE i \in ends : \A j \in ends : i <= j
    IN  SubSeq(p, a + 1, end)

Colons(t) == {i \in 1..Len(t) : SubSeq(t, i, i) = ":"}

FirstColon(t) == CHOOSE i \in Colons(t) : \A j \in Colons(t) : i <= j

KeyOf(t) == SubSeq(t, 1, FirstColon(t) - 1)

ValueOf(t) == SubSeq(t, FirstColon(t) + 1, Len(t))

\* the starts of the tokens that are a "key:value"
PairStarts(p) == {a \in TokenStarts(p) : Colons(TokenAt(p, a)) # {}}

\* for every key, the value of the last "key:value" token with that key
LastValues(p) ==
    [k \in {KeyOf(TokenAt(p, a)) : a \in PairStarts(p)} |->
        LET with == {a \in PairStarts(p) : KeyOf(TokenAt(p, a)) = k}
            last == CHOOSE a \in with : \A b \in with : b <= a
        IN  ValueOf(TokenAt(p, last))]

(***************************************************************************)
(* C17.  The parameter map of a handled message holds, for every key, the  *)
(* value of the last "key:value" token with that key, the tokens being     *)
(* what '/' separates and each split at its first ':'; tokens without ':'  *)
(* add nothing, and the last token counts with or without a '/' after it.  *)
(***************************************************************************)
C17_LastTokenPerKeyWins ==
    \A i \in 1..Len(handled) :
       find(handled[i].message, "?", 0) # npos =>
          ParamsOf(handled[i].message) = LastValues(params_of(handled[i].message))

\* a key given twice around a token without ':' and no '/' at the end
C17_Witness ==
    /\ Len(handled) = 1
    /\ params_of(handled[1].message) = "k:a/junk/k:b"
    /\ DOMAIN ParamsOf(handled[1].message) = {"k"}
    /\ ParamsOf(handled[1].message)["k"] = "b"

\* the room ids that sessions can have, and one that none has
RoomIds == 0..3

(***************************************************************************)
(* C18.  On every registry the server reaches, get_or_create_room(id) for  *)
(* an absent id adds one entry, an empty room under id, and leaves every   *)
(* other entry as it is; for a present id it leaves the registry as it is, *)
(* members included; a second call for the same id changes nothing.        *)
(***************************************************************************)
C18_GetOrCreateIsIdempotent ==
    \A id \in RoomIds :
       LET once  == get_or_create_room(rooms_, id)
           twice == get_or_create_room(once, id)
       IN  /\ id \notin DOMAIN rooms_ =>
                 /\ DOMAIN once = DOMAIN rooms_ \cup {id}
                 /\ once[id].members_ = {}
                 /\ \A r \in DOMAIN rooms_ : once[r] = rooms_[r]
           /\ id \in DOMAIN rooms_ => once = rooms_
           /\ twice = once

\* room 1 was created for session 1 and found again for session 2 and for
\* a chat line; room 2 is absent
C18_Witness ==
    /\ DOMAIN rooms_ = {1}
    /\ rooms_[1].members_ = {1, 2}
    /\ Len(accepted) = 1
    /\ accepted[1].room_id = 1

(***************************************************************************)
(* C19.  On every registry the server reaches, remove_empty_room(id)       *)
(* removes the entry of id when id has a room with no members, and only    *)
(* then; a room with a member stays, and so does every other entry; an     *)
(* absent id leaves the registry as it is.                                 *)
(***************************************************************************)
C19_RemovesExactlyEmptyRoom ==
    \A id \in RoomIds :
       LET after == remove_empty_room(rooms_, id)
       IN  /\ (id \in DOMAIN rooms_ /\ rooms_[id].members_ = {}) =>
                 DOMAIN after = DOMAIN rooms_ \ {id}
           /\ (id \in DOMAIN rooms_ /\ rooms_[id].members_ # {}) =>
                 after = rooms_
           /\ id \notin DOMAIN rooms_ => after = rooms_
           /\ \A r \in DOMAIN rooms_ \ {id} :
                 r \in DOMAIN after /\ after[r] = rooms_[r]

\* leave_room has removed room 1 when its last member left, and room 2,
\* which has a member, is still registered
C19_Witness ==
    /\ \E i \in 1..Len(cout) : cout[i] = "Room 1 has been removed (no members)."
    /\ DOMAIN rooms_ = {2}
    /\ rooms_[2].members_ # {}

(***************************************************************************)
(* C20.  A step in which a session joins a room writes the join notice     *)
(* once to every member the room has after the insertion, the session that *)
(* joins among them, and to nobody else; and inserting a session that is a *)
(* member already leaves the member count as it is.                        *)
(***************************************************************************)
C20_JoinNotifiesEveryMember ==
    [][/\ \A s \in Sessions :
            \A r \in RoomsOf(rooms_', s) \ RoomsOf(rooms_, s) :
               \A m \in Sessions :
                  sent'[m] = IF m \in rooms_'[r].members_
                             THEN Append(sent[m], JOIN_NOTICE \o NL)
                             ELSE sent[m]
       /\ \A r \in DOMAIN rooms_ :
            \A m \in rooms_[r].members_ :
               member_count(insert(rooms_[r], m)) = member_count(rooms_[r])
      ]_vars

\* this step takes session s out of the members of room r
Departs(s, r) ==
    /\ r \in DOMAIN rooms_
    /\ s \in rooms_[r].members_
    /\ r \in DOMAIN rooms_' => s \notin rooms_'[r].members_

(***************************************************************************)
(* C21.  A step that takes a session out of a room writes the leave notice *)
(* to every member that remains and nothing to the session that departs;   *)
(* and whatever step writes to a session, that session is a member of a    *)
(* room then: a departed session gets no broadcast until it joins again.   *)
(***************************************************************************)
C21_LeaveNoticeToRemainingOnly ==
    [][/\ \A s \in Sessions : \A r \in DOMAIN rooms_ :
             Departs(s, r) =>
                /\ sent'[s] = sent[s]
                /\ \A m \in rooms_[r].members_ \ {s} :
                      sent'[m] = Append(sent[m], LEAVE_NOTICE \o NL)
       /\ \A t \in Sessions :
             sent'[t] # sent[t] => RoomsOf(rooms_', t) # {}
      ]_vars

(***************************************************************************)
(* C23.  When the first line of a session has no ',', the error is         *)
(* reported and nothing else happens to the session: its room id is as     *)
(* before, it is a member of no room, and the registry has the rooms it    *)
(* had.                                                                    *)
(***************************************************************************)
C23_NoCommaLeavesSessionAlone ==
    [][\A s \in Sessions :
          (TakesInitialLine(s) /\ find(FirstLine(buffer_[s]), ",", 0) = npos) =>
             /\ \E i \in 1..Len(cerr') :
                   cerr'[i] = "Invalid data format: " \o FirstLine(buffer_[s])
             /\ room_id_'[s] = room_id_[s]
             /\ RoomsOf(rooms_', s) = {}
             /\ DOMAIN rooms_' = DOMAIN rooms_
      ]_vars

\* this step is the success branch of do_read taking a chat line
AcceptsLine == Len(accepted') = Len(accepted) + 1

(***************************************************************************)
(* C24.  Room isolation: when a session that is a member of room R sends a *)
(* line, the streams that change at that step are streams of members of R, *)
(* and what they get is that line; the stream of a session that is not in  *)
(* R, in another room or in none, stays as it is.                          *)
(***************************************************************************)
C24_RoomIsolation ==
    [][AcceptsLine =>
          LET m == Last(accepted')
          IN  \A R \in RoomsOf(rooms_, m.session) :
                 \A t \in Sessions :
                    sent'[t] # sent[t] =>
                       /\ t \in rooms_[R].members_
                       /\ sent'[t] = Append(sent[t], m.text \o NL)
      ]_vars

\* session 1 is in room 1 and session 2 in room 2; a line of session 1 has
\* reached session 1, and session 2 has its own join notice and no more
C24_Witness ==
    /\ RoomsOf(rooms_, 1) = {1}
    /\ RoomsOf(rooms_, 2) = {2}
    /\ Len(accepted) = 1
    /\ accepted[1].session = 1
    /\ sent[1] = <<JOIN_NOTICE \o NL, accepted[1].text \o NL>>
    /\ sent[2] = <<JOIN_NOTICE \o NL>>

(***************************************************************************)
(* C25.  Neither branch of do_read adds a room to the registry: after a    *)
(* step that takes a chat line or handles the end of a connection, the set *)
(* of room ids is a subset of what it was.                                 *)
(***************************************************************************)
C25_DoReadAddsNoRoom ==
    [][(AcceptsLine \/ \E s \in Sessions : Disconnects(s)) =>
          DOMAIN rooms_' \subseteq DOMAIN rooms_
      ]_vars

\* this step takes some session out of some room
SomeoneDeparts == \E s \in Sessions : \E r \in DOMAIN rooms_ : Departs(s, r)

(***************************************************************************)
(* C26.  A leave notice is written only by a step that really takes a      *)
(* session out of a room, and then once to each stream: a session that     *)
(* called leave_room and disconnects later causes one notice, not two.     *)
(***************************************************************************)
C26_OneNoticePerDeparture ==
    [][\A t \in Sessions :
          (/\ Len(sent'[t]) > Len(sent[t])
           /\ Last(sent'[t]) = LEAVE_NOTICE \o NL) =>
             /\ SomeoneDeparts
             /\ sent'[t] = Append(sent[t], LEAVE_NOTICE \o NL)
      ]_vars

(***************************************************************************)
(* C27.  The step that takes the first line of a session takes no chat     *)
(* line and writes nothing but the join notice; a chat line is taken only  *)
(* from a session that has joined, and is written once to every member of  *)
(* the sender's room and to the sender.                                    *)
(***************************************************************************)
C27_OnlyChatLinesAreBroadcast ==
    [][/\ \A s \in Sessions :
             TakesInitialLine(s) =>
                /\ accepted' = accepted
                /\ \A t \in Sessions :
                      sent'[t] \in {sent[t], Append(sent[t], JOIN_NOTICE \o NL)}
       /\ AcceptsLine =>
             LET m == Last(accepted')
             IN  /\ pc[m.session] = "read"
                 /\ \A t \in rooms_'[m.room_id].members_ \cup {m.session} :
                       sent'[t] = Append(sent[t], m.text \o NL)
      ]_vars

(***************************************************************************)
(* The reactor and a peer that no longer drains its connection.            *)
(* ChatRoom::broadcast writes with the synchronous boost::asio::write on   *)
(* sockets that are in blocking mode: the call returns when all bytes are  *)
(* handed to the socket, so it does not return while the send buffer of a  *)
(* peer that reads nothing is full.  Such a peer has pc "stalled" (it is   *)
(* still a member and still connected, and sends nothing); a handler that  *)
(* is inside a write to it has pc "writing", and io_context.run(), which   *)
(* runs the handlers one after the other on the one thread main gives it,  *)
(* runs no handler while one is there.                                     *)
(***************************************************************************)
MaxStalled == 1

StalledIn(room) == {m \in room.members_ : pc[m] = "stalled"}

Blocked == \E t \in Sessions : pc[t] = "writing"

\* the peer of a member stops reading; nothing of it is in flight
PeerStalls(s) ==
    /\ running
    /\ pc[s] = "read"
    /\ ~HasLine(buffer_[s])
    /\ Cardinality({t \in Sessions : pc[t] = "stalled"}) < MaxStalled
    /\ pc' = [pc EXCEPT ![s] = "stalled"]
    /\ UNCHANGED <<handled, running, room_id_, user_, buffer_, rooms_, users_, sent,
                   accepted, talks, cout, cerr, werr, leave_calls>>

\* the peer of s sends a line that the bound on accepted lines leaves room for
ReactorClientSend(s, line) ==
    /\ Len(accepted) + Pending(Sessions) < MaxMsgs
    /\ ClientSend(s, line)

\* broadcast(message) by the handler of s in a room that has a stalled
\* member: the members iterated before it are written to, then the write
\* to it does not return; or a write before it raises
BlockingWrite(s, room, message, log) ==
    \/ /\ \E D \in SUBSET (room.members_ \ StalledIn(room)) :
            sent' = written(sent, [delivered |-> D, failed |-> NULL], message)
       /\ pc' = [pc EXCEPT ![s] = "writing"]
       /\ cerr' = cerr \o log
       /\ UNCHANGED <<werr, running>>
    \/ /\ \E o \in broadcast(room) :
            /\ o.failed # NULL
            /\ o.failed \notin StalledIn(room)
            /\ o.delivered \cap StalledIn(room) = {}
            /\ Wrote(o, message, log)
       /\ pc' = [pc EXCEPT ![s] = "idle"]

\* the room the first line in the buffer of s makes s join, with s in it
InitialRoom(s) ==
    LET id == parse_initial_data(FirstLine(buffer_[s]), room_id_[s]).room_id_
    IN  insert(get_or_create_room(rooms_, id)[id], s)

ReactorAccept(s) == ~Blocked /\ Accept(s)

ReactorReadInitialData(s) ==
    /\ ~Blocked
    /\ IF /\ running /\ pc[s] = "initial" /\ HasLine(buffer_[s])
          /\ ~parse_initial_data(FirstLine(buffer_[s]), room_id_[s]).threw
          /\ StalledIn(InitialRoom(s)) # {}
       THEN LET p  == parse_initial_data(FirstLine(buffer_[s]), room_id_[s])
                id == p.room_id_
            IN  /\ buffer_' = [buffer_ EXCEPT ![s] = AfterFirstLine(@)]
                /\ room_id_' = [room_id_ EXCEPT ![s] = id]
                /\ rooms_' = [get_or_create_room(rooms_, id) EXCEPT
                                 ![id] = insert(@, s)]
                /\ BlockingWrite(s, InitialRoom(s), JOIN_NOTICE, p.err)
                /\ UNCHANGED <<handled, user_, users_, accepted, talks, cout,
                               leave_calls>>
       ELSE ReadInitialData(s)

ReactorDoReadMessage(s) ==
    /\ ~Blocked
    /\ LET id  == room_id_[s]
           reg == get_or_create_room(rooms_, id)
       IN  IF /\ running /\ pc[s] = "read" /\ HasLine(buffer_[s])
              /\ Len(accepted) < MaxMsgs
              /\ StalledIn(reg[id]) # {}
           THEN /\ buffer_' = [buffer_ EXCEPT ![s] = AfterFirstLine(@)]
                /\ rooms_' = reg
                /\ accepted' = Append(accepted,
                                  [session |-> s, room_id |-> id,
                                   text |-> FirstLine(buffer_[s])])
                /\ BlockingWrite(s, reg[id], FirstLine(buffer_[s]), <<>>)
                /\ UNCHANGED <<handled, room_id_, user_, users_, talks, cout,
                               leave_calls>>
           ELSE DoReadMessage(s)

ReactorDoReadError(s) ==
    /\ ~Blocked
    /\ LET id   == room_id_[s]
           left == [get_or_create_room(rooms_, id) EXCEPT ![id] = erase(@, s)]
       IN  IF /\ running /\ pc[s] = "read" /\ ~HasLine(buffer_[s])
              /\ StalledIn(left[id]) # {}
           THEN /\ rooms_' = left
                /\ BlockingWrite(s, left[id], LEAVE_NOTICE, <<>>)
                /\ UNCHANGED <<handled, room_id_, user_, buffer_, users_, accepted,
                               talks, cout, leave_calls>>
           ELSE DoReadError(s)

NextReactor ==
    \/ \E s \in Sessions : ReactorAccept(s)
    \/ \E s \in Sessions : \E line \in HandshakeLines \cup ChatLines :
          ReactorClientSend(s, line)
    \/ \E s \in Sessions : PeerStalls(s)
    \/ \E s \in Sessions : ReactorReadInitialData(s)
    \/ \E s \in Sessions : ReactorDoReadMessage(s)
    \/ \E s \in Sessions : ReactorDoReadError(s)

\* io_context.run() runs every completion handler that is ready: a do_read
\* that has a line to complete with is handled, unless the thread is held
SpecReactor ==
    /\ Init
    /\ [][NextReactor]_vars
    /\ \A s \in Sessions : WF_vars(ReactorDoReadMessage(s))

\* a line of s, which has joined, has arrived and its read is posted
LineWaits(s) ==
    running /\ pc[s] = "read" /\ HasLine(buffer_[s])

\* the handlers that took the lines of s have returned: the broadcasts are
\* complete, every member of the room was written to
LinesHandled(s) == ~Blocked /\ ~HasLine(buffer_[s])

(***************************************************************************)
(* C22.  No handler holds the reactor: a line that has arrived from a      *)
(* session is eventually taken and its handler returns (the line is with   *)
(* every member of the room that drains its connection), whether or not a  *)
(* member, of the same room or of another, has stopped draining.  Only an  *)
(* exception that ends the event loop is set aside.                        *)
(***************************************************************************)
C22_ReactorNeverBlocks ==
    \A s \in Sessions : LineWaits(s) ~> (~running \/ LinesHandled(s))

=============================================================================
